---- MODULE Spec2Model ----
(***************************************************************************)
(* A model of TheanoUtil.py: the array helpers (windowed_batch,            *)
(* downsample, upsample, pad, chunked_time_reverse), the gradient-discard  *)
(* operator GradDiscardOutOfBound and its graph rewrite rule.              *)
(*                                                                         *)
(* An array is a record [st, shape, data]: data holds the elements in      *)
(* row-major (C) order, st is "ok" or the name of the exception that the   *)
(* evaluation raised.  Python numbers that may be fractional (factor,      *)
(* window, chunk_size) are rationals [num, den] in lowest terms.           *)
(***************************************************************************)
EXTENDS Integers, Sequences, FiniteSets, TLC

VARIABLES op, args, result, graph, orig, phase

vars == <<op, args, result, graph, orig, phase>>

-----------------------------------------------------------------------------
(* Bounds of the model.                                                    *)

MaxTime == 7
MaxDim == 2
MaxFactor == 3
MaxWindow == 4
MaxTarget == 4
MaxNodes == 3
MaxWinTime == 4
MaxChunk == 4
MaxExtra == 2
MaxGrad == 2

-----------------------------------------------------------------------------
(* Numbers.                                                                *)

Maximum(a, b) == IF a >= b THEN a ELSE b

Minimum(a, b) == IF a <= b THEN a ELSE b

Abs(a) == IF a < 0 THEN -a ELSE a

RECURSIVE GCD(_, _)
GCD(a, b) == IF b = 0 THEN a ELSE GCD(b, a % b)

Rat(n, d) ==
  LET g == GCD(Abs(n), Abs(d))
      s == IF d < 0 THEN -1 ELSE 1
  IN [num |-> (s * n) \div g, den |-> (s * d) \div g]

RatSub(a, b) == Rat(a.num * b.den - b.num * a.den, a.den * b.den)

IsInt(r) == r.den = 1

\* Python's int(): truncation toward zero.
int(r) == IF r.num >= 0 THEN r.num \div r.den ELSE -((-r.num) \div r.den)

\* A "/" that divides two ints truly, as Python 3's does.
PyDiv_true(a, b) == Rat(a.num * b.den, a.den * b.num)

\* Python 2's "/": floor division of two ints, true division otherwise.
PyDiv(a, b) ==
  IF IsInt(a) /\ IsInt(b) THEN Rat(a.num \div b.num, 1)
  ELSE Rat(a.num * b.den, a.den * b.num)

\* A cast that rounds up.
CastInt32_ceil(r) == IF r.den = 1 THEN r.num ELSE (r.num \div r.den) + 1

\* T.cast(x, "int32"): the fraction is dropped.  Every number of the model lies
\* far inside the 32-bit range, so the wrap-around of the cast never applies.
CastInt32(r) == int(r)

-----------------------------------------------------------------------------
(* The array engine's primitives.                                          *)

None == <<>>

Some(x) == <<x>>

Arr(shape, data) == [st |-> "ok", shape |-> shape, data |-> data]

Raise(e) == [st |-> e, shape |-> <<>>, data |-> <<>>]

RECURSIVE Prod(_)
Prod(s) == IF s = <<>> THEN 1 ELSE Head(s) * Prod(Tail(s))

RECURSIVE SumSeq(_)
SumSeq(s) == IF s = <<>> THEN 0 ELSE Head(s) + SumSeq(Tail(s))

RECURSIVE MaxSeq(_)
MaxSeq(s) == IF Len(s) = 1 THEN s[1] ELSE Maximum(Head(s), MaxSeq(Tail(s)))

RECURSIVE MinSeq(_)
MinSeq(s) == IF Len(s) = 1 THEN s[1] ELSE Minimum(Head(s), MinSeq(Tail(s)))

ndim(a) == Len(a.shape)

\* Axes are numbered from 0, as in the source; sequences from 1.
AxisLen(a, axis) == a.shape[axis + 1]

Inner(shape, axis) == Prod(SubSeq(shape, axis + 2, Len(shape)))

\* The element at (o, k, i): o over the axes before `axis`, k along it,
\* i over the axes after it.
At(a, axis, o, k, i) ==
  a.data[(o * AxisLen(a, axis) + k) * Inner(a.shape, axis) + i + 1]

\* The coordinates (o, k, i) of the j-th element (from 1) of an array of `shape`.
O(shape, axis, j) == (j - 1) \div (shape[axis + 1] * Inner(shape, axis))

K(shape, axis, j) == ((j - 1) \div Inner(shape, axis)) % shape[axis + 1]

I(shape, axis, j) == (j - 1) % Inner(shape, axis)

SetAxis(shape, axis, len) == [shape EXCEPT ![axis + 1] = len]

\* T.zeros(shape) for a shape of integers.
Zeros(shape) == Arr(shape, [j \in 1..Prod(shape) |-> 0])

\* T.zeros(shape) for a shape of Python numbers: Alloc takes integers only.
zeros(shape) ==
  IF \E j \in 1..Len(shape) : ~IsInt(shape[j]) THEN Raise("TypeError")
  ELSE Zeros([j \in 1..Len(shape) |-> shape[j].num])

\* slice(start, stop); a bound is None or Some(n).
Slice(start, stop) == [start |-> start, stop |-> stop]

SliceAll == Slice(None, None)

\* Python's slice.indices for step 1.
Clamp(bound, len, default) ==
  IF bound = None THEN default
  ELSE IF bound[1] < 0 THEN Maximum(len + bound[1], 0)
  ELSE Minimum(bound[1], len)

SliceAxis(a, axis, s) ==
  IF a.st # "ok" THEN a
  ELSE LET len == AxisLen(a, axis)
           start == Clamp(s.start, len, 0)
           stop == Clamp(s.stop, len, len)
           shape == SetAxis(a.shape, axis, Maximum(stop - start, 0))
       IN Arr(shape, [j \in 1..Prod(shape) |->
                At(a, axis, O(shape, axis, j), start + K(shape, axis, j), I(shape, axis, j))])

\* a[tup]: the j-th slice of the tuple applies to axis j - 1.
RECURSIVE GetItemFrom(_, _, _)
GetItemFrom(a, tup, j) ==
  IF j > Len(tup) THEN a ELSE GetItemFrom(SliceAxis(a, j - 1, tup[j]), tup, j + 1)

GetItem(a, tup) ==
  IF a.st # "ok" THEN a
  ELSE IF Len(tup) > ndim(a) THEN Raise("IndexError")
  ELSE GetItemFrom(a, tup, 1)

\* T.repeat(a, n, axis).
Repeat(a, n, axis) ==
  IF a.st # "ok" THEN a
  ELSE LET shape == SetAxis(a.shape, axis, AxisLen(a, axis) * n)
       IN Arr(shape, [j \in 1..Prod(shape) |->
                At(a, axis, O(shape, axis, j), K(shape, axis, j) \div n, I(shape, axis, j))])

\* T.concatenate([a, b], axis): every other axis must agree.
Concatenate(a, b, axis) ==
  IF a.st # "ok" THEN a
  ELSE IF b.st # "ok" THEN b
  ELSE IF \/ ndim(a) # ndim(b)
          \/ \E j \in 1..ndim(a) : j # axis + 1 /\ a.shape[j] # b.shape[j]
       THEN Raise("ValueError")
  ELSE LET la == AxisLen(a, axis)
           shape == SetAxis(a.shape, axis, la + AxisLen(b, axis))
       IN Arr(shape, [j \in 1..Prod(shape) |->
                LET o == O(shape, axis, j)
                    k == K(shape, axis, j)
                    i == I(shape, axis, j)
                IN IF k < la THEN At(a, axis, o, k, i) ELSE At(b, axis, o, k - la, i)])

\* T.reshape(a, shape): the number of elements must stay.
Reshape(a, shape) ==
  IF a.st # "ok" THEN a
  ELSE IF Prod(shape) # Len(a.data) THEN Raise("ValueError")
  ELSE Arr(shape, a.data)

Flatten(a) == IF a.st # "ok" THEN a ELSE Arr(<<Len(a.data)>>, a.data)

\* The multi-index (from 0) of flat position j (from 0) in an array of `shape`.
Unravel(j, shape) ==
  [k \in 1..Len(shape) |-> (j \div Prod(SubSeq(shape, k + 1, Len(shape)))) % shape[k]]

Ravel(idx, shape) ==
  SumSeq([k \in 1..Len(shape) |-> idx[k] * Prod(SubSeq(shape, k + 1, Len(shape)))])

\* a.dimshuffle(perm): axis k of the result is axis perm[k] of a.
Dimshuffle(a, perm) ==
  IF a.st # "ok" THEN a
  ELSE LET shape == [k \in 1..Len(perm) |-> a.shape[perm[k] + 1]]
           pos(m) == CHOOSE k \in 1..Len(perm) : perm[k] + 1 = m
       IN Arr(shape, [j \in 1..Prod(shape) |->
                LET idx == Unravel(j - 1, shape)
                IN a.data[Ravel([m \in 1..Len(perm) |-> idx[pos(m)]], a.shape) + 1]])

\* T.tile(a, reps) with one repetition count per axis.
Tile(a, reps) ==
  IF a.st # "ok" THEN a
  ELSE LET shape == [k \in 1..ndim(a) |-> a.shape[k] * reps[k]]
       IN Arr(shape, [j \in 1..Prod(shape) |->
                LET idx == Unravel(j - 1, shape)
                IN a.data[Ravel([k \in 1..ndim(a) |-> idx[k] % a.shape[k]], a.shape) + 1]])

\* A rotation by one in place of the reversal.
RevIndex_rotate(k, len) == (k + 1) % len

\* a[:, ::-1] and its like: the order along `axis` is reversed.
RevIndex(k, len) == len - 1 - k

ReverseAxis(a, axis) ==
  IF a.st # "ok" THEN a
  ELSE Arr(a.shape, [j \in 1..Prod(a.shape) |->
             At(a, axis, O(a.shape, axis, j),
                RevIndex(K(a.shape, axis, j), AxisLen(a, axis)), I(a.shape, axis, j))])

\* T.mean, T.max or T.min of the elements s of one group.
ReduceSeq(method, s) ==
  IF method = "average" THEN Rat(SumSeq(s), Len(s))
  ELSE IF method = "max" THEN MaxSeq(s)
  ELSE MinSeq(s)

\* A reduction over `axis`, which disappears from the shape.
Reduce(a, axis, method) ==
  IF a.st # "ok" THEN a
  ELSE LET len == AxisLen(a, axis)
           inner == Inner(a.shape, axis)
           shape == SubSeq(a.shape, 1, axis) \o SubSeq(a.shape, axis + 2, ndim(a))
       IN Arr(shape, [j \in 1..Prod(shape) |->
                ReduceSeq(method, [k \in 1..len |->
                  At(a, axis, (j - 1) \div inner, k - 1, (j - 1) % inner)])])

Mean(a, axis) == Reduce(a, axis, "average")

Max(a, axis) == Reduce(a, axis, "max")

Min(a, axis) == Reduce(a, axis, "min")

-----------------------------------------------------------------------------
(* TheanoUtil.py                                                           *)

slice_for_axis(axis, s) ==
  LET n == Maximum(axis - 1, 0)
  IN [j \in 1..(n + 1) |-> IF j = n + 1 THEN s ELSE SliceAll]

pad(source, axis, target_axis_len, pad_value) ==
  LET pv == IF pad_value = None
            THEN Zeros([j \in 1..ndim(source) |->
                          IF j - 1 # axis THEN source.shape[j] ELSE 1])
            ELSE pad_value[1]
      num_missing == Maximum(CastInt32(Rat(target_axis_len, 1)) - AxisLen(source, axis), 1)
      target == Concatenate(source, Repeat(pv, num_missing, axis), axis)
  IN GetItem(target, slice_for_axis(axis, Slice(Some(0), Some(target_axis_len))))

windowed_batch(source, window) ==
  LET n_time == source.shape[1]
      n_batch == source.shape[2]
      n_dim == source.shape[3]
      w_right == PyDiv(window, Rat(2, 1))
      w_left == RatSub(RatSub(window, w_right), Rat(1, 1))
      pad_left == zeros(<<w_left, Rat(n_batch, 1), Rat(n_dim, 1)>>)
      pad_right == zeros(<<w_right, Rat(n_batch, 1), Rat(n_dim, 1)>>)
      W == window.num
      padded == Concatenate(Concatenate(pad_left, source, 0), pad_right, 0)
      tiled == Tile(padded, <<1, 1, W>>)
      tiled_reshape == Reshape(tiled, <<n_time + W - 1, n_batch, W, n_dim>>)
      tiled_dimshuffle == Dimshuffle(tiled_reshape, <<2, 0, 1, 3>>)
      tiled_flat == Flatten(tiled_dimshuffle)
      rem == n_batch * n_dim * W
      tiled_flat_pad_right == Concatenate(tiled_flat, Zeros(<<rem>>), 0)
      tiled_reshape_shift == Reshape(tiled_flat_pad_right, <<W, n_time + W, n_batch, n_dim>>)
      final_dimshuffle == Dimshuffle(tiled_reshape_shift, <<1, 2, 0, 3>>)
      final_sub == GetItem(final_dimshuffle, <<Slice(None, Some(n_time))>>)
  IN IF ndim(source) # 3 THEN Raise("AssertionError")
     ELSE IF pad_left.st # "ok" THEN pad_left
     ELSE IF pad_right.st # "ok" THEN pad_right
     ELSE Reshape(final_sub, <<n_time, n_batch, W * n_dim>>)

downsample(source, axis, factor, method) ==
  IF ~(factor = Rat(int(factor), 1)) THEN Raise("AssertionError")
  ELSE LET f == int(factor)
           source1 == GetItem(source, slice_for_axis(axis,
                        Slice(Some(0), Some((AxisLen(source, axis) \div f) * f))))
           added_dim_shape == SubSeq(source1.shape, 1, axis)
                              \o <<AxisLen(source1, axis) \div f, f>>
                              \o SubSeq(source1.shape, axis + 2, ndim(source1))
           source2 == Reshape(source1, added_dim_shape)
       IN IF method = "average" THEN Mean(source2, axis + 1)
          ELSE IF method = "max" THEN Max(source2, axis + 1)
          ELSE IF method = "min" THEN Min(source2, axis + 1)
          ELSE Raise("AssertionError")

upsample(source, axis, factor, method, target_axis_len) ==
  IF method = "nearest-neighbor"
  THEN IF ~(factor = Rat(int(factor), 1)) THEN Raise("AssertionError")
       ELSE LET f == int(factor)
                target == Repeat(source, f, axis)
                last == GetItem(source, slice_for_axis(axis, Slice(Some(-1), None)))
            IN IF target_axis_len # None
               THEN pad(target, axis, target_axis_len[1], Some(last))
               ELSE target
  ELSE Raise("AssertionError")

\* The number of whole chunks, the partial last chunk forgotten.
num_chunks_floor(n_time, chunk_size) == n_time \div chunk_size

num_chunks_of(n_time, chunk_size) == (n_time + chunk_size - 1) \div chunk_size

chunked_time_reverse(source, chunk_size) ==
  LET cs == CastInt32(chunk_size)
      num_chunks == num_chunks_of(source.shape[1], cs)
      needed_time == num_chunks * cs
      remaining_dims == Tail(source.shape)
      padded_source == pad(source, 0, needed_time, None)
      reshaped == Reshape(padded_source, <<num_chunks, cs>> \o remaining_dims)
      reshaped_rev == ReverseAxis(reshaped, 1)
      rev_correct_ndim == Reshape(reshaped_rev, <<needed_time>> \o remaining_dims)
  IN GetItem(rev_correct_ndim, <<Slice(None, Some(source.shape[1]))>>)

\* GradDiscardOutOfBound.__init__: the operator, or the failed assertion.
GradDiscardOutOfBound(lower_bound, upper_bound) ==
  IF lower_bound <= upper_bound
  THEN [st |-> "ok", op |-> "GradDiscardOutOfBound",
        lower_bound |-> lower_bound, upper_bound |-> upper_bound]
  ELSE [st |-> "AssertionError", op |-> "GradDiscardOutOfBound",
        lower_bound |-> lower_bound, upper_bound |-> upper_bound]

\* ViewOp.perform, which GradDiscardOutOfBound inherits: the output is the input.
perform(node, x) == x

\* A grad that discards the bounds themselves too.
grad_strict(node, g_out) ==
  IF g_out <= node.lower_bound \/ g_out >= node.upper_bound THEN 0 ELSE g_out

\* GradDiscardOutOfBound.grad for one element of g_out.
grad(node, g_out) ==
  IF g_out < node.lower_bound \/ g_out > node.upper_bound THEN 0 ELSE g_out

grad_discard_out_of_bound(x, lower_bound, upper_bound) ==
  LET node == GradDiscardOutOfBound(lower_bound, upper_bound)
  IN IF node.st # "ok" THEN [st |-> node.st, node |-> node, out |-> 0]
     ELSE [st |-> "ok", node |-> node, out |-> perform(node, x)]

\* A computation graph: the apply nodes, each with the variable it reads
\* (inputs) and the variable it makes (out), and the graph's output variable.
\* Variable 0 is the graph's input.
EmptyGraph == [nodes |-> {}, output |-> 0]

\* A node of another operator, here the elementwise negation.
NegOp == [st |-> "ok", op |-> "neg", lower_bound |-> 0, upper_bound |-> 0]

Apply(g, theOp) ==
  LET out == Cardinality(g.nodes) + 1
  IN [nodes |-> g.nodes \cup {[op |-> theOp, inputs |-> g.output, out |-> out]},
      output |-> out]

NodeOf(g, v) == CHOOSE n \in g.nodes : n.out = v

RECURSIVE Forward(_, _, _)
Forward(g, v, x) ==
  IF v = 0 THEN x
  ELSE LET n == NodeOf(g, v)
           y == Forward(g, n.inputs, x)
       IN IF n.op.op = "neg" THEN -y ELSE perform(n.op, y)

\* The gradient that reaches the graph's input when g_out arrives at variable v.
RECURSIVE Backward(_, _, _)
Backward(g, v, g_out) ==
  IF v = 0 THEN g_out
  ELSE LET n == NodeOf(g, v)
       IN Backward(g, n.inputs, IF n.op.op = "neg" THEN -g_out ELSE grad(n.op, g_out))

\* A rule without the isinstance test.
_local_any_node(node) == Some(node.inputs)

\* The local optimizer: the replacement for the node's output, or None.
_local_grad_discard(node) ==
  IF node.op.op = "GradDiscardOutOfBound" THEN Some(node.inputs) ELSE None

\* The optimizer replaces the node's output by `by` wherever it is used; the
\* node, now unused, leaves the graph.
Replace(g, node, by) ==
  [nodes |-> {IF n.inputs = node.out THEN [n EXCEPT !.inputs = by] ELSE n :
                n \in g.nodes \ {node}},
   output |-> IF g.output = node.out THEN by ELSE g.output]

-----------------------------------------------------------------------------
(* The inputs.                                                             *)

Patterns == {"iota0", "iota1", "desc", "alt"}

Fill(p, j, n) ==
  CASE p = "iota0" -> j - 1
    [] p = "iota1" -> j
    [] p = "desc" -> n - j + 1
    [] p = "alt" -> IF j % 2 = 0 THEN -j ELSE j

Source(shape, p) == Arr(shape, [j \in 1..Prod(shape) |-> Fill(p, j, Prod(shape))])

Shapes1 == {<<t>> : t \in 0..MaxTime}

Shapes2 == {<<a, b>> : a \in 0..MaxDim + 1, b \in 0..MaxDim + 1}

Shapes3 == {<<a, b, c>> : a \in 0..MaxDim, b \in 0..MaxDim, c \in 0..MaxDim}

\* (time, batch, dim) for windowed_batch.
ShapesTBD == {<<t, b, d>> : t \in 0..MaxWinTime, b \in 0..MaxDim, d \in 0..MaxDim}

Sources == {Source(s, p) : s \in Shapes1 \cup Shapes2 \cup Shapes3, p \in Patterns}

Axes(a) == 0..(ndim(a) - 1)

-----------------------------------------------------------------------------
(* The calls: the initial state holds a call and its arguments, the call's *)
(* action evaluates it.                                                    *)

Pending == Raise("pending")

Fractions == {Rat(3, 2), Rat(5, 2)}

Factors == {Rat(f, 1) : f \in 1..MaxFactor} \cup Fractions

Windows == {Rat(w, 1) : w \in 1..MaxWindow} \cup Fractions

ChunkSizes == {Rat(c, 1) : c \in 1..MaxChunk} \cup Fractions

DownMethods == {"average", "max", "min", "median"}

UpMethods == {"nearest-neighbor", "linear"}

BoundValues == {-1, 0, 1}

GradValues == (-MaxGrad)..MaxGrad

SourceAxes == {<<s, a>> \in Sources \X (0..2) : a \in Axes(s)}

Args_pad ==
  {[source |-> sa[1], axis |-> sa[2], target_axis_len |-> t, pad_value |-> pv] :
     sa \in SourceAxes, t \in 0..MaxTarget, pv \in {None, Some("iota1")}}

PadValue(source, axis, pv) ==
  IF pv = None THEN None ELSE Some(Source(SetAxis(source.shape, axis, 1), pv[1]))

Args_windowed_batch ==
  {[source |-> Source(s, p), window |-> w] : s \in ShapesTBD, p \in Patterns, w \in Windows}

Args_downsample ==
  {[source |-> sa[1], axis |-> sa[2], factor |-> f, method |-> m] :
     sa \in SourceAxes, f \in Factors, m \in DownMethods}

\* target_axis_len: omitted, or around the repeated length.
Targets(source, axis, factor) ==
  {None} \cup {Some(t) : t \in {AxisLen(source, axis) * int(factor) + d : d \in (-1)..MaxExtra}
                              \cap Nat}

UpArgs(sources, methods) ==
  UNION {{[source |-> sa[1], axis |-> sa[2], factor |-> f, method |-> m,
           target_axis_len |-> t] : t \in Targets(sa[1], sa[2], f), m \in methods} :
         sa \in {x \in SourceAxes : x[1] \in sources}, f \in Factors}

Args_upsample ==
  UpArgs({Source(s, p) : s \in Shapes1 \cup Shapes2 \cup Shapes3, p \in {"iota1", "alt"}},
         UpMethods)

Args_roundtrip ==
  UpArgs({Source(s, p) : s \in Shapes1 \cup Shapes2 \cup Shapes3, p \in {"desc"}},
         {"nearest-neighbor"})

Args_chunked_time_reverse ==
  {[source |-> s, chunk_size |-> c] : s \in Sources, c \in ChunkSizes}

Args_grad_discard_out_of_bound ==
  {[x |-> x, lower_bound |-> lo, upper_bound |-> hi, g_out |-> g] :
     x \in GradValues, lo \in BoundValues, hi \in BoundValues, g \in GradValues}

Init ==
  /\ result = Pending
  /\ graph = EmptyGraph
  /\ orig = EmptyGraph
  /\ phase = "build"
  /\ \/ op = "pad" /\ args \in Args_pad
     \/ op = "windowed_batch" /\ args \in Args_windowed_batch
     \/ op = "downsample" /\ args \in Args_downsample
     \/ op = "upsample" /\ args \in Args_upsample
     \/ op = "roundtrip" /\ args \in Args_roundtrip
     \/ op = "chunked_time_reverse" /\ args \in Args_chunked_time_reverse
     \/ op = "chunked_time_reverse_twice" /\ args \in Args_chunked_time_reverse
     \/ op = "grad_discard_out_of_bound" /\ args \in Args_grad_discard_out_of_bound

Call_pad ==
  /\ op = "pad" /\ result = Pending
  /\ result' = pad(args.source, args.axis, args.target_axis_len,
                   PadValue(args.source, args.axis, args.pad_value))
  /\ UNCHANGED <<op, args, graph, orig, phase>>

Call_windowed_batch ==
  /\ op = "windowed_batch" /\ result = Pending
  /\ result' = windowed_batch(args.source, args.window)
  /\ UNCHANGED <<op, args, graph, orig, phase>>

Call_downsample ==
  /\ op = "downsample" /\ result = Pending
  /\ result' = downsample(args.source, args.axis, args.factor, args.method)
  /\ UNCHANGED <<op, args, graph, orig, phase>>

Call_upsample ==
  /\ op = "upsample" /\ result = Pending
  /\ result' = upsample(args.source, args.axis, args.factor, args.method,
                        args.target_axis_len)
  /\ UNCHANGED <<op, args, graph, orig, phase>>

\* downsample(upsample(A, axis, F, "nearest-neighbor", t), axis, F, "average")
Call_roundtrip ==
  /\ op = "roundtrip" /\ result = Pending
  /\ LET up == upsample(args.source, args.axis, args.factor, args.method,
                        args.target_axis_len)
     IN result' = IF up.st # "ok" THEN up
                  ELSE downsample(up, args.axis, args.factor, "average")
  /\ UNCHANGED <<op, args, graph, orig, phase>>

Call_chunked_time_reverse ==
  /\ op = "chunked_time_reverse" /\ result = Pending
  /\ result' = chunked_time_reverse(args.source, args.chunk_size)
  /\ UNCHANGED <<op, args, graph, orig, phase>>

Call_chunked_time_reverse_twice ==
  /\ op = "chunked_time_reverse_twice" /\ result = Pending
  /\ result' = chunked_time_reverse(chunked_time_reverse(args.source, args.chunk_size),
                                    args.chunk_size)
  /\ UNCHANGED <<op, args, graph, orig, phase>>

\* grad_discard_out_of_bound(x, lo, hi), evaluated forward on x and backward on
\* the incoming gradient g_out.
Call_grad_discard_out_of_bound ==
  /\ op = "grad_discard_out_of_bound" /\ result = Pending
  /\ LET r == grad_discard_out_of_bound(args.x, args.lower_bound, args.upper_bound)
     IN result' = IF r.st # "ok" THEN [st |-> r.st, out |-> 0, g_in |-> 0]
                  ELSE [st |-> "ok", out |-> r.out, g_in |-> grad(r.node, args.g_out)]
  /\ UNCHANGED <<op, args, graph, orig, phase>>

Next ==
  \/ Call_pad
  \/ Call_windowed_batch
  \/ Call_downsample
  \/ Call_upsample
  \/ Call_roundtrip
  \/ Call_chunked_time_reverse
  \/ Call_chunked_time_reverse_twice
  \/ Call_grad_discard_out_of_bound

Spec == Init /\ [][Next]_vars

-----------------------------------------------------------------------------
(* The graph: operators are applied while it is built; compiling it runs   *)
(* the canonicalize rewrite, one node at a time, in any order.             *)

GraphInit ==
  /\ op = "none"
  /\ args = <<>>
  /\ result = Pending
  /\ graph = EmptyGraph
  /\ orig = EmptyGraph
  /\ phase = "build"

Apply_grad_discard_out_of_bound ==
  \E lo \in BoundValues, hi \in BoundValues :
    /\ phase = "build"
    /\ Cardinality(graph.nodes) < MaxNodes
    /\ LET node == GradDiscardOutOfBound(lo, hi)
       IN graph' = IF node.st = "ok" THEN Apply(graph, node) ELSE graph
    /\ UNCHANGED <<op, args, result, orig, phase>>

Apply_neg ==
  /\ phase = "build"
  /\ Cardinality(graph.nodes) < MaxNodes
  /\ graph' = Apply(graph, NegOp)
  /\ UNCHANGED <<op, args, result, orig, phase>>

Compile ==
  /\ phase = "build"
  /\ phase' = "optimize"
  /\ orig' = graph
  /\ UNCHANGED <<op, args, result, graph>>

Rewrite ==
  \E node \in graph.nodes :
    /\ phase = "optimize"
    /\ _local_grad_discard(node) # None
    /\ graph' = Replace(graph, node, _local_grad_discard(node)[1])
    /\ UNCHANGED <<op, args, result, orig, phase>>

GraphNext ==
  \/ Apply_grad_discard_out_of_bound
  \/ Apply_neg
  \/ Compile
  \/ Rewrite

GraphSpec == GraphInit /\ [][GraphNext]_vars

-----------------------------------------------------------------------------
(* What the calls are expected to return.                                  *)

Done(name) == op = name /\ result # Pending

\* `source` along `axis` cut or extended to Len(src): position k (from 0) holds
\* the slice src[k + 1] of source, or the slice 0 of `fill` where that is past
\* the end.
Along(source, axis, src, fill) ==
  LET shape == SetAxis(source.shape, axis, Len(src))
  IN Arr(shape, [j \in 1..Prod(shape) |->
           LET o == (j - 1) \div (Len(src) * Inner(shape, axis))
               k == ((j - 1) \div Inner(shape, axis)) % Len(src)
               i == (j - 1) % Inner(shape, axis)
           IN IF src[k + 1] < AxisLen(source, axis)
              THEN At(source, axis, o, src[k + 1], i)
              ELSE At(fill, axis, o, 0, i)])

ZeroSlice(source, axis) == Zeros(SetAxis(source.shape, axis, 1))

\* C1: pad returns the first min(len, target_axis_len) slices of source along
\* axis followed by max(target_axis_len - len, 0) copies of pad_value (zeros
\* when omitted); its length along axis is target_axis_len, every other axis
\* keeps its length.
C1_PadContract ==
  Done("pad") =>
    LET pv == PadValue(args.source, args.axis, args.pad_value)
    IN result = Along(args.source, args.axis,
                      [k \in 1..args.target_axis_len |-> k - 1],
                      IF pv = None THEN ZeroSlice(args.source, args.axis) ELSE pv[1])

\* C1 on the leading axis, where the code does meet the contract.
C1_PadAxis0 == (Done("pad") /\ args.axis = 0) => C1_PadContract

WindowedExpected(source, W) ==
  LET n_time == source.shape[1]
      n_batch == source.shape[2]
      n_dim == source.shape[3]
      w_right == W \div 2
      w_left == W - w_right - 1
  IN Arr(<<n_time, n_batch, W * n_dim>>,
         [j \in 1..(n_time * n_batch * W * n_dim) |->
            LET t == (j - 1) \div (n_batch * W * n_dim)
                b == ((j - 1) \div (W * n_dim)) % n_batch
                w == ((j - 1) \div n_dim) % W
                d == (j - 1) % n_dim
                u == t + w - w_left
            IN IF 0 <= u /\ u < n_time
               THEN source.data[(u * n_batch + b) * n_dim + d + 1]
               ELSE 0])

\* C2: for an integer window W >= 1, windowed_batch returns the (T, B, W*D)
\* array with output[t, b, w*D + d] = source[t + w - w_left, b, d] inside
\* [0, T) and 0 outside; W = 1 returns the input; for the values [1,2,3,4]
\* and W = 3 the windows at t = 0 and t = 3 are [0,1,2] and [3,4,0].
C2_WindowedBatch ==
  (Done("windowed_batch") /\ IsInt(args.window)) =>
    /\ result = WindowedExpected(args.source, args.window.num)
    /\ args.window.num = 1 => result = args.source
    /\ (args.source = Arr(<<4, 1, 1>>, <<1, 2, 3, 4>>) /\ args.window.num = 3) =>
         /\ SubSeq(result.data, 1, 3) = <<0, 1, 2>>
         /\ SubSeq(result.data, 10, 12) = <<3, 4, 0>>

C2_Witness ==
  /\ Done("windowed_batch")
  /\ args.source = Arr(<<4, 1, 1>>, <<1, 2, 3, 4>>)
  /\ args.window = Rat(3, 1)
  /\ result = Arr(<<4, 1, 3>>, <<0, 1, 2, 1, 2, 3, 2, 3, 4, 3, 4, 0>>)

ChunkSource(i, C) == (i \div C) * C + (C - 1 - (i % C))

\* C3: for an integer chunk_size C >= 1, chunked_time_reverse returns an array
\* of the source's shape with output[i] = source[(i div C)*C + C - 1 - (i mod C)]
\* where that index is below T and a zero slice otherwise; [0..6] with C = 3
\* gives [2,1,0,5,4,3,0].
C3_ChunkedTimeReverse ==
  (Done("chunked_time_reverse") /\ IsInt(args.chunk_size)) =>
    /\ result = Along(args.source, 0,
                      [i \in 1..args.source.shape[1] |->
                         ChunkSource(i - 1, args.chunk_size.num)],
                      ZeroSlice(args.source, 0))
    /\ (args.source = Arr(<<7>>, <<0, 1, 2, 3, 4, 5, 6>>) /\ args.chunk_size.num = 3) =>
         result = Arr(<<7>>, <<2, 1, 0, 5, 4, 3, 0>>)

C3_Witness ==
  /\ Done("chunked_time_reverse")
  /\ args.source = Arr(<<7>>, <<0, 1, 2, 3, 4, 5, 6>>)
  /\ args.chunk_size = Rat(3, 1)
  /\ result = Arr(<<7>>, <<2, 1, 0, 5, 4, 3, 0>>)

Group(source, axis, o, k, i, F) == [m \in 1..F |-> At(source, axis, o, k * F + m - 1, i)]

DownExpected(source, axis, F, method) ==
  LET shape == SetAxis(source.shape, axis, AxisLen(source, axis) \div F)
  IN Arr(shape, [j \in 1..Prod(shape) |->
           LET g == Group(source, axis, (j - 1) \div (shape[axis + 1] * Inner(shape, axis)),
                          ((j - 1) \div Inner(shape, axis)) % shape[axis + 1],
                          (j - 1) % Inner(shape, axis), F)
           IN IF method = "average" THEN Rat(SumSeq(g), F)
              ELSE IF method = "max" THEN MaxSeq(g) ELSE MinSeq(g)])

\* C4: for an integer factor F >= 1 and a method among average, max and min,
\* downsample returns floor(len / F) elements along axis, element k the
\* mean / max / min of source elements k*F .. k*F + F - 1, and every other
\* axis whole.
C4_Downsample ==
  (Done("downsample") /\ IsInt(args.factor) /\ args.method \in {"average", "max", "min"}) =>
    result = DownExpected(args.source, args.axis, args.factor.num, args.method)

\* C4 on the leading axis, where the code does meet the contract.
C4_DownsampleAxis0 == (Done("downsample") /\ args.axis = 0) => C4_Downsample

UpExpected(source, axis, F, len) ==
  Along(source, axis,
        [k \in 1..len |-> Minimum((k - 1) \div F, AxisLen(source, axis) - 1)], source)

\* C5: nearest-neighbor upsample with an integer factor F >= 1 repeats each
\* element F times along axis (length len*F); with a target_axis_len above
\* len*F the length along axis is target_axis_len and the extra tail positions
\* hold the last slice of source along that axis.
C5_Upsample ==
  (/\ Done("upsample") /\ IsInt(args.factor) /\ args.method = "nearest-neighbor"
   /\ AxisLen(args.source, args.axis) > 0) =>
    LET lenF == AxisLen(args.source, args.axis) * args.factor.num
    IN /\ args.target_axis_len = None =>
            result = UpExpected(args.source, args.axis, args.factor.num, lenF)
       /\ (args.target_axis_len # None /\ args.target_axis_len[1] > lenF) =>
            result = UpExpected(args.source, args.axis, args.factor.num,
                                args.target_axis_len[1])

\* C5 on the leading axis, where the code does meet the contract.
C5_UpsampleAxis0 == (Done("upsample") /\ args.axis = 0) => C5_Upsample

\* C6: downsample(upsample(A, axis, F, nearest-neighbor), axis, F, average) has
\* A's shape and A's values when upsample pads nothing (target_axis_len omitted
\* or equal to len*F).
C6_RoundTrip ==
  (/\ Done("roundtrip") /\ IsInt(args.factor)
   /\ \/ args.target_axis_len = None
      \/ args.target_axis_len = Some(AxisLen(args.source, args.axis) * args.factor.num)) =>
    /\ result.st = "ok"
    /\ result.shape = args.source.shape
    /\ \A j \in 1..Len(result.data) : result.data[j] = Rat(args.source.data[j], 1)

\* C6 on the leading axis, where the round trip does recover A.
C6_RoundTripAxis0 == (Done("roundtrip") /\ args.axis = 0) => C6_RoundTrip

\* C7: for lo <= hi the operator returns x in the forward pass and maps an
\* incoming gradient v to 0 when v < lo or v > hi and to v otherwise, so that
\* v = lo and v = hi pass unchanged.
C7_GradDiscard ==
  (Done("grad_discard_out_of_bound") /\ args.lower_bound <= args.upper_bound) =>
    /\ result.st = "ok"
    /\ result.out = args.x
    /\ result.g_in = IF args.g_out < args.lower_bound \/ args.g_out > args.upper_bound
                     THEN 0 ELSE args.g_out
    /\ args.g_out \in {args.lower_bound, args.upper_bound} => result.g_in = args.g_out

C7_Witness ==
  /\ Done("grad_discard_out_of_bound")
  /\ args.lower_bound = -1 /\ args.upper_bound = 1
  /\ args.g_out = 1 /\ result.g_in = 1 /\ result.out = args.x /\ args.x # 0

\* A call whose arguments break a precondition the spec names.
Violates ==
  \/ op \in {"downsample", "upsample"} /\ ~IsInt(args.factor)
  \/ op = "windowed_batch" /\ ~IsInt(args.window)
  \/ op = "chunked_time_reverse" /\ ~IsInt(args.chunk_size)
  \/ op = "downsample" /\ args.method \notin {"average", "max", "min"}
  \/ op = "upsample" /\ args.method # "nearest-neighbor"
  \/ op = "grad_discard_out_of_bound" /\ args.lower_bound > args.upper_bound

FailedAtCall == result.st \in {"AssertionError", "TypeError"}

\* C8 as claimed: every call with a violated precondition fails at call time.
C8_AllFail == (result # Pending /\ Violates) => FailedAtCall

\* C8 as amended: every such call fails at call time but chunked_time_reverse
\* with a fractional chunk_size of at least 1, which drops the fraction and
\* returns what it returns for the truncated chunk size.
C8_FailExceptChunkSize ==
  (result # Pending /\ Violates) =>
    IF op = "chunked_time_reverse"
    THEN /\ result.st = "ok"
         /\ result = Along(args.source, 0,
                           [i \in 1..args.source.shape[1] |->
                              ChunkSource(i - 1, int(args.chunk_size))],
                           ZeroSlice(args.source, 0))
    ELSE FailedAtCall

C8_Witness ==
  /\ Done("chunked_time_reverse")
  /\ args.chunk_size = Rat(5, 2)
  /\ args.source = Arr(<<4>>, <<1, 2, 3, 4>>)
  /\ result = Arr(<<4>>, <<2, 1, 4, 3>>)

\* C9: chunked_time_reverse applied twice with the same integer chunk_size C
\* returns A whenever T is a multiple of C (T = 0 included); with T no multiple
\* of C it can differ: for A = [1,2,3] and C = 2 the last element, alone in its
\* chunk, comes back as 0.
C9_TwiceIsIdentityOnMultiples ==
  (Done("chunked_time_reverse_twice") /\ IsInt(args.chunk_size)) =>
    /\ args.source.shape[1] % args.chunk_size.num = 0 => result = args.source
    /\ (args.source = Arr(<<3>>, <<1, 2, 3>>) /\ args.chunk_size.num = 2) =>
         result = Arr(<<3>>, <<1, 2, 0>>)

C9_Witness ==
  /\ Done("chunked_time_reverse_twice")
  /\ args.source = Arr(<<3>>, <<1, 2, 3>>)
  /\ args.chunk_size = Rat(2, 1)
  /\ result = Arr(<<3>>, <<1, 2, 0>>)
  /\ result # args.source

Out(g) == {n.out : n \in g.nodes}

IsGradDiscard(n) == n.op.op = "GradDiscardOutOfBound"

\* A gradient-discard node not applied to another gradient-discard's output.
Lone(g, n) == IsGradDiscard(n) /\ (n.inputs = 0 \/ ~IsGradDiscard(NodeOf(g, n.inputs)))

====
